---- MODULE Spec2Model ----
(***************************************************************************)
(* A model of motioneye-client: the request signature                       *)
(* (motioneye_client/utils.py), the URL builder, the request executor and   *)
(* the client life cycle (motioneye_client/client.py).                      *)
(*                                                                          *)
(* Text is a sequence of one-character strings, so that splitting,          *)
(* joining, percent-encoding and the character filter act on characters as  *)
(* the Python code does.  Positions are 1-based; Find returns 0 where       *)
(* str.find returns -1.                                                     *)
(***************************************************************************)
EXTENDS Integers, Sequences, FiniteSets, TLC

(***************************************************************************)
(* Characters: printable ASCII, code 32 (space) to 126 (~).  Code 96 (the   *)
(* grave accent) is written "<grave>".                                      *)
(***************************************************************************)
Ascii ==
 <<
    " ", "!", "\"", "#", "$", "%", "&", "'", "(", ")", "*", "+", ",", "-", ".", "/",
    "0", "1", "2", "3", "4", "5", "6", "7", "8", "9", ":", ";", "<", "=", ">", "?",
    "@", "A", "B", "C", "D", "E", "F", "G", "H", "I", "J", "K", "L", "M", "N", "O",
    "P", "Q", "R", "S", "T", "U", "V", "W", "X", "Y", "Z", "[", "\\", "]", "^", "_",
    "<grave>", "a", "b", "c", "d", "e", "f", "g", "h", "i", "j", "k", "l", "m", "n", "o",
    "p", "q", "r", "s", "t", "u", "v", "w", "x", "y", "z", "{", "|", "}", "~"
 >>

AsciiSet == {Ascii[i] : i \in 1..Len(Ascii)}

RECURSIVE OrdUpTo(_)
\* the codes of the first n characters of Ascii, as a table
OrdUpTo(n) ==
  IF n = 1 THEN Ascii[1] :> 32 ELSE OrdUpTo(n - 1) @@ (Ascii[n] :> 31 + n)

\* ord(c) for a printable ASCII character
Ord == OrdUpTo(Len(Ascii))

\* The character a decoded byte outside printable ASCII is shown as.
ReplacementChar == "<U+FFFD>"

\* chr(n); bytes outside printable ASCII decode (errors="replace") to U+FFFD
Chr(n) == IF n >= 32 /\ n <= 126 THEN Ascii[n - 31] ELSE ReplacementChar

\* the characters from lo to hi
CharRange(lo, hi) == {Ascii[i - 31] : i \in Ord[lo]..Ord[hi]}

Digits == CharRange("0", "9")
LowerLetters == CharRange("a", "z")
UpperLetters == CharRange("A", "Z")

IsDigit(c) == c \in Digits
IsLower(c) == c \in LowerLetters
IsUpper(c) == c \in UpperLetters
IsAlpha(c) == IsLower(c) \/ IsUpper(c)
IsAlnum(c) == IsAlpha(c) \/ IsDigit(c)

HexDigits == <<"0","1","2","3","4","5","6","7","8","9","A","B","C","D","E","F">>

\* str.lower() of one character
LowerChar(c) == IF IsUpper(c) THEN Chr(Ord[c] + 32) ELSE c

\* str.lower()
Lower(s) == [i \in 1..Len(s) |-> LowerChar(s[i])]

\* the value of a hexadecimal digit (either case), -1 for any other character
HexVal(c) ==
  IF IsDigit(c) THEN Ord[c] - Ord["0"]
  ELSE IF c \in CharRange("A", "F") THEN Ord[c] - Ord["A"] + 10
  ELSE IF c \in CharRange("a", "f") THEN Ord[c] - Ord["a"] + 10
  ELSE -1

(***************************************************************************)
(* str methods.                                                             *)
(***************************************************************************)
SetMin(S) == CHOOSE i \in S : \A j \in S : i <= j

\* s.find(c, from): the first position >= from holding c, 0 when there is none
Find(s, c, from) ==
  LET hits == {i \in from..Len(s) : s[i] = c}
  IN  IF hits = {} THEN 0 ELSE SetMin(hits)

\* c in s
Has(s, c) == \E i \in 1..Len(s) : s[i] = c

\* s[i:] and s[:i] with 1-based positions: From(s, i) keeps s[i], Upto(s, i) too
From(s, i) == SubSeq(s, i, Len(s))
Upto(s, i) == SubSeq(s, 1, i)

\* s.startswith(p)
StartsWith(s, p) == Len(s) >= Len(p) /\ SubSeq(s, 1, Len(p)) = p

RECURSIVE Split(_, _)
\* s.split(c): always at least one piece
Split(s, c) ==
  LET i == Find(s, c, 1)
  IN  IF i = 0 THEN <<s>>
      ELSE <<Upto(s, i - 1)>> \o Split(From(s, i + 1), c)

\* s.split(c, 1)
Split1(s, c) ==
  LET i == Find(s, c, 1)
  IN  IF i = 0 THEN <<s>> ELSE <<Upto(s, i - 1), From(s, i + 1)>>

RECURSIVE Join(_, _)
\* sep.join(parts)
Join(parts, sep) ==
  IF Len(parts) = 0 THEN <<>>
  ELSE IF Len(parts) = 1 THEN parts[1]
  ELSE LET half == Len(parts) \div 2
       IN  Join(Upto(parts, half), sep) \o sep \o Join(From(parts, half + 1), sep)

RECURSIVE LStripSpace(_)
\* s.lstrip(" ")
LStripSpace(s) ==
  IF Len(s) > 0 /\ s[1] = " " THEN LStripSpace(Tail(s)) ELSE s

\* s.replace(a, b) for single characters
ReplaceChar(s, a, b) == [i \in 1..Len(s) |-> IF s[i] = a THEN b ELSE s[i]]

RECURSIVE DecStr(_)
\* str(n) for n >= 0
DecStr(n) ==
  IF n < 10 THEN <<HexDigits[n + 1]>>
  ELSE DecStr(n \div 10) \o <<HexDigits[(n % 10) + 1]>>

(***************************************************************************)
(* urllib.parse, as the client and the signature use it (CPython 3.11).     *)
(* A split URL is a record of its five components; urlparse adds "params".  *)
(***************************************************************************)
HTTP == <<"h","t","t","p">>
HTTPS == <<"h","t","t","p","s">>

\* The members of uses_relative, uses_netloc and uses_params that a base URL
\* of the model can spell: no scheme, http, https.
UsesRelative == {<<>>, HTTP, HTTPS}
UsesNetloc == {<<>>, HTTP, HTTPS}
UsesParams == {<<>>, HTTP, HTTPS}

\* scheme_chars
IsSchemeChar(c) == IsAlnum(c) \/ c \in {"+", "-", "."}

\* urlsplit, the end: the fragment and the query are split off the path
UrlsplitPath(scheme, netloc, rest, fragment) ==
  LET q == Split1(rest, "?")
  IN  [scheme |-> scheme,
       netloc |-> netloc,
       path |-> q[1],
       query |-> IF Len(q) = 2 THEN q[2] ELSE <<>>,
       fragment |-> fragment]

UrlsplitFragment(scheme, netloc, rest) ==
  LET f == Split1(rest, "#")
  IN  UrlsplitPath(scheme, netloc, f[1], IF Len(f) = 2 THEN f[2] ELSE <<>>)

\* _splitnetloc(url, 2): the network location runs to the earliest of / ? #
SplitNetlocEnd(url) ==
  LET delims == {Find(url, c, 3) : c \in {"/", "?", "#"}} \ {0}
  IN  IF delims = {} THEN Len(url) + 1 ELSE SetMin(delims)

\* urlsplit, after the scheme: a network location follows a leading //
UrlsplitNetloc(scheme, url) ==
  IF StartsWith(url, <<"/", "/">>)
  THEN UrlsplitFragment(scheme, SubSeq(url, 3, SplitNetlocEnd(url) - 1),
                        From(url, SplitNetlocEnd(url)))
  ELSE UrlsplitFragment(scheme, <<>>, url)

\* urlsplit, the scheme: the text before the first colon, when it starts with
\* a letter and holds scheme characters only
UrlsplitScheme(url, scheme0, i) ==
  IF /\ i > 1
     /\ IsAlpha(url[1])
     /\ \A k \in 1..(i - 1) : IsSchemeChar(url[k])
  THEN UrlsplitNetloc(Lower(Upto(url, i - 1)), From(url, i + 1))
  ELSE UrlsplitNetloc(scheme0, url)

UrlsplitStripped(url, scheme0) == UrlsplitScheme(url, scheme0, Find(url, ":", 1))

\* urlsplit(url, scheme): (scheme, netloc, path, query, fragment)
urlsplit(url0, scheme0) == UrlsplitStripped(LStripSpace(url0), scheme0)

\* urlsplit raises ValueError("Invalid IPv6 URL"): one square bracket of the
\* network location without the other
NetlocRaises(netloc) == Has(netloc, "[") # Has(netloc, "]")

UrlsplitRaises(url) == NetlocRaises(urlsplit(url, <<>>).netloc)

\* urlunsplit((scheme, netloc, path, query, fragment))
urlunsplit(p) ==
  LET withNetloc ==
        IF \/ Len(p.netloc) > 0
           \/ /\ Len(p.scheme) > 0
              /\ p.scheme \in UsesNetloc
              /\ ~StartsWith(p.path, <<"/", "/">>)
        THEN <<"/", "/">> \o p.netloc \o
             (IF Len(p.path) > 0 /\ p.path[1] # "/" THEN <<"/">> ELSE <<>>) \o p.path
        ELSE p.path
      withScheme ==
        IF Len(p.scheme) > 0 THEN p.scheme \o <<":">> \o withNetloc ELSE withNetloc
      withQuery ==
        IF Len(p.query) > 0 THEN withScheme \o <<"?">> \o p.query ELSE withScheme
  IN  IF Len(p.fragment) > 0 THEN withQuery \o <<"#">> \o p.fragment ELSE withQuery

\* s.rfind(c): the last position holding c, 0 when there is none
RFind(s, c) ==
  LET hits == {i \in 1..Len(s) : s[i] = c}
  IN  IF hits = {} THEN 0 ELSE CHOOSE i \in hits : \A j \in hits : j <= i

\* _splitparams(path), called with ";" in path: <<path, params>>
SplitParams(path) ==
  LET i == IF Has(path, "/") THEN Find(path, ";", RFind(path, "/"))
           ELSE Find(path, ";", 1)
  IN  IF i = 0 THEN <<path, <<>>>> ELSE <<Upto(path, i - 1), From(path, i + 1)>>

\* urlparse, after urlsplit: the last segment's ;params are split off
UrlparseSplit(r) ==
  LET pp == IF r.scheme \in UsesParams /\ Has(r.path, ";")
            THEN SplitParams(r.path) ELSE <<r.path, <<>>>>
  IN  [scheme |-> r.scheme, netloc |-> r.netloc, path |-> pp[1],
       params |-> pp[2], query |-> r.query, fragment |-> r.fragment]

\* urlparse(url, scheme)
urlparse(url, scheme0) == UrlparseSplit(urlsplit(url, scheme0))

\* urlunparse((scheme, netloc, path, params, query, fragment))
urlunparse(p) ==
  urlunsplit([scheme |-> p.scheme, netloc |-> p.netloc,
              path |-> IF Len(p.params) > 0 THEN p.path \o <<";">> \o p.params
                       ELSE p.path,
              query |-> p.query, fragment |-> p.fragment])

RECURSIVE ResolveSegments(_, _)
\* the loop of urljoin over the segments: ".." pops, "." is skipped
ResolveSegments(segments, resolved) ==
  IF Len(segments) = 0 THEN resolved
  ELSE LET seg == Head(segments)
       IN  IF seg = <<".", ".">>
           THEN ResolveSegments(Tail(segments),
                                IF Len(resolved) > 0
                                THEN Upto(resolved, Len(resolved) - 1)
                                ELSE resolved)
           ELSE IF seg = <<".">>
           THEN ResolveSegments(Tail(segments), resolved)
           ELSE ResolveSegments(Tail(segments), Append(resolved, seg))

\* segments[1:-1] = filter(None, segments[1:-1])
FilterInner(segments) ==
  IF Len(segments) < 3 THEN segments
  ELSE <<segments[1]>>
       \o SelectSeq(SubSeq(segments, 2, Len(segments) - 1), LAMBDA g : Len(g) > 0)
       \o <<segments[Len(segments)]>>

\* urljoin, lines of the path: the base's directory, then the segments resolved
UrljoinPath(b, u) ==
  LET bp0 == Split(b.path, "/")
      base_parts == IF Len(bp0[Len(bp0)]) # 0
                    THEN Upto(bp0, Len(bp0) - 1) ELSE bp0
  IN  IF Len(u.path) > 0 /\ u.path[1] = "/" THEN Split(u.path, "/")
      ELSE FilterInner(base_parts \o Split(u.path, "/"))

UrljoinResolved(segments) ==
  Join(IF segments[Len(segments)] \in {<<".">>, <<".", ".">>}
       THEN Append(ResolveSegments(segments, <<>>), <<>>)
       ELSE ResolveSegments(segments, <<>>),
       <<"/">>)

OrSlash(path) == IF Len(path) = 0 THEN <<"/">> ELSE path

\* urljoin with both URLs parsed
UrljoinParsed(b, u, url) ==
  IF u.scheme # b.scheme \/ u.scheme \notin UsesRelative THEN url
  ELSE IF u.scheme \in UsesNetloc /\ Len(u.netloc) > 0 THEN urlunparse(u)
  ELSE IF Len(u.path) = 0 /\ Len(u.params) = 0
  THEN urlunparse([scheme |-> u.scheme,
                   netloc |-> IF u.scheme \in UsesNetloc THEN b.netloc
                              ELSE u.netloc,
                   path |-> b.path, params |-> b.params,
                   query |-> IF Len(u.query) = 0 THEN b.query ELSE u.query,
                   fragment |-> u.fragment])
  ELSE urlunparse([scheme |-> u.scheme,
                   netloc |-> IF u.scheme \in UsesNetloc THEN b.netloc
                              ELSE u.netloc,
                   path |-> OrSlash(UrljoinResolved(UrljoinPath(b, u))),
                   params |-> u.params, query |-> u.query,
                   fragment |-> u.fragment])

UrljoinBase(b, url) == UrljoinParsed(b, urlparse(url, b.scheme), url)

\* urljoin(base, url)
urljoin(base, url) ==
  IF Len(base) = 0 THEN url
  ELSE IF Len(url) = 0 THEN base
  ELSE UrljoinBase(urlparse(base, <<>>), url)

\* code point of a character; a decoded non-ASCII byte is U+FFFD
CodePoint(c) == IF c \in AsciiSet THEN Ord[c] ELSE 65533

RECURSIVE StrLess(_, _)
\* a < b for Python strings: lexicographic by code point
StrLess(a, b) ==
  IF Len(b) = 0 THEN FALSE
  ELSE IF Len(a) = 0 THEN TRUE
  ELSE IF a[1] = b[1] THEN StrLess(Tail(a), Tail(b))
  ELSE CodePoint(a[1]) < CodePoint(b[1])

\* an escape %XX starts at position i of s: a % with two hexadecimal digits
IsEscapeAt(s, i) ==
  /\ i >= 1
  /\ i + 2 <= Len(s)
  /\ s[i] = "%"
  /\ HexVal(s[i + 1]) >= 0
  /\ HexVal(s[i + 2]) >= 0

\* unquote(s): %XX with two hexadecimal digits becomes the byte, decoded with
\* errors="replace"; any other % stays
unquote(s) ==
  IF ~Has(s, "%") THEN s
  ELSE Join([i \in 1..Len(s) |->
               IF IsEscapeAt(s, i)
               THEN <<Chr(16 * HexVal(s[i + 1]) + HexVal(s[i + 2]))>>
               ELSE IF IsEscapeAt(s, i - 1) \/ IsEscapeAt(s, i - 2) THEN <<>>
               ELSE <<s[i]>>],
            <<>>)

\* the characters quote() never encodes
AlwaysSafe == Digits \cup LowerLetters \cup UpperLetters \cup {"_", ".", "-", "~"}

IsAlwaysSafe(c) == c \in AlwaysSafe

\* %XX of the UTF-8 bytes of one character
PercentEncode(c) ==
  IF c \in AsciiSet
  THEN LET n == Ord[c]
       IN  <<"%", HexDigits[(n \div 16) + 1], HexDigits[(n % 16) + 1]>>
  ELSE <<"%", "E", "F", "%", "B", "F", "%", "B", "D">>

\* quote(s, safe)
quote(s, safe) ==
  IF \A i \in 1..Len(s) : IsAlwaysSafe(s[i]) \/ s[i] \in safe THEN s
  ELSE Join([i \in 1..Len(s) |->
               IF IsAlwaysSafe(s[i]) \/ s[i] \in safe THEN <<s[i]>>
               ELSE PercentEncode(s[i])],
            <<>>)

\* quote_plus(s, safe=""): the space becomes +
quote_plus(s) == ReplaceChar(quote(s, {" "}), " ", "+")

\* A dict is the sequence of its <<key, value>> items, in insertion order.
DictHas(d, k) == \E i \in 1..Len(d) : d[i][1] = k

\* d.update({k: v}): an existing key keeps its place
DictUpdate(d, k, v) ==
  IF DictHas(d, k)
  THEN [i \in 1..Len(d) |-> IF d[i][1] = k THEN <<k, v>> ELSE d[i]]
  ELSE Append(d, <<k, v>>)

\* urlencode(params)
urlencode(params) ==
  Join([i \in 1..Len(params) |->
          quote_plus(params[i][1]) \o <<"=">> \o quote_plus(params[i][2])],
       <<"&">>)

\* one name=value field of parse_qsl; a field without = has a blank value
ParseField(nv) ==
  LET p == Split1(nv, "=")
  IN  <<unquote(ReplaceChar(p[1], "+", " ")),
        IF Len(p) = 2 THEN unquote(ReplaceChar(p[2], "+", " ")) ELSE <<>> >>

\* parse_qsl(qs, keep_blank_values=True): empty fields are skipped
parse_qsl(qs) ==
  IF Len(qs) = 0 THEN <<>>
  ELSE LET fields == SelectSeq(Split(qs, "&"), LAMBDA a : Len(a) > 0)
       IN  [i \in 1..Len(fields) |-> ParseField(fields[i])]

(***************************************************************************)
(* hashlib.sha1(text.encode("UTF-8")).hexdigest().  SHA-1 is modelled as    *)
(* collision-free: the digest of a text is the lower-case hexadecimal       *)
(* encoding of its characters, an injective map into [0-9a-f]*.  A digest   *)
(* of the model is not 40 characters long.                                  *)
(***************************************************************************)
RECURSIVE HexUpTo(_)
\* the two lower-case hexadecimal digits of the first n characters of Ascii
HexUpTo(n) ==
  IF n = 0 THEN ReplacementChar :> <<"e", "f">>
  ELSE HexUpTo(n - 1) @@ (Ascii[n] :> Lower(Tail(PercentEncode(Ascii[n]))))

HexOf == HexUpTo(Len(Ascii))

sha1_hexdigest(s) ==
  [i \in 1..(2 * Len(s)) |-> HexOf[s[(i + 1) \div 2]][2 - (i % 2)]]

(***************************************************************************)
(* motioneye_client/utils.py                                                *)
(***************************************************************************)
SIGNATURE_NAME == <<"_","s","i","g","n","a","t","u","r","e">>

\* An optional text (Optional[str]): None, or Some(text).
None == [some |-> FALSE, v |-> <<>>]
Some(s) == [some |-> TRUE, v |-> s]
\* Python truthiness of an optional text
Truthy(o) == o.some /\ Len(o.v) > 0

\* a character _SIGNATURE_REGEX leaves alone: [a-zA-Z0-9/?_.=&{}\[\]":, -]
SignatureRegexKept ==
  Digits \cup LowerLetters \cup UpperLetters
    \cup {"/", "?", "_", ".", "=", "&", "{", "}", "[", "]", "\"", ":", ",", " ", "-"}

SignatureRegexKeeps(c) == c \in SignatureRegexKept

\* _SIGNATURE_REGEX.sub("-", s)
SignatureRegexSub(s) ==
  [i \in 1..Len(s) |-> IF SignatureRegexKeeps(s[i]) THEN s[i] ELSE "-"]

RECURSIVE SortByName(_)
\* query.sort(key=lambda q: q[0]): a stable sort by name
SortByName(query) ==
  IF Len(query) <= 1 THEN query
  ELSE LET init == SortByName(Upto(query, Len(query) - 1))
           x == query[Len(query)]
           \* x goes after every pair whose name is not greater than its own
           k == Cardinality({i \in 1..Len(init) : ~StrLess(x[1], init[i][1])})
       IN  Upto(init, k) \o <<x>> \o From(init, k + 1)

\* the safe characters of the value encoding, after encodeURIComponent
EncodeURIComponentSafe == {"!", "'", "(", ")", "*", "~"}

\* the canonical query string without the filter of line 41: a _signature
\* pair is kept
CanonicalQuery_KeepsSignature(qs) ==
  LET sorted == SortByName(parse_qsl(qs))
  IN  Join([i \in 1..Len(sorted) |->
              sorted[i][1] \o <<"=">> \o quote(sorted[i][2], EncodeURIComponentSafe)],
           <<"&">>)

\* the canonical query string without the sort of line 43: the pairs stay in
\* the order of the URL
CanonicalQuery_Unsorted(qs) ==
  LET query == SelectSeq(parse_qsl(qs), LAMBDA q : q[1] # SIGNATURE_NAME)
  IN  Join([i \in 1..Len(query) |->
              query[i][1] \o <<"=">> \o quote(query[i][2], EncodeURIComponentSafe)],
           <<"&">>)

\* the canonical query string: lines 40-46
CanonicalQuery(qs) ==
  LET query == SelectSeq(parse_qsl(qs), LAMBDA q : q[1] # SIGNATURE_NAME)
      sorted == SortByName(query)
  IN  Join([i \in 1..Len(sorted) |->
              sorted[i][1] \o <<"=">> \o quote(sorted[i][2], EncodeURIComponentSafe)],
           <<"&">>)

\* the canonical path and query: lines 39-50
CanonicalPath(path) ==
  LET parts == urlsplit(path, <<>>)
  IN  SignatureRegexSub(urlunsplit([scheme |-> <<>>, netloc |-> <<>>,
                                    path |-> parts.path,
                                    query |-> CanonicalQuery(parts.query),
                                    fragment |-> parts.fragment]))

\* the body segment with lines 53-54 after line 56: the --- test is made on
\* the filtered body
BodySegment_FilterFirst(body) ==
  LET body1 == IF Truthy(body) THEN Some(SignatureRegexSub(body.v)) ELSE body
      body2 == IF Truthy(body1) /\ StartsWith(body1.v, <<"-", "-", "-">>)
               THEN None ELSE body1
  IN  IF Truthy(body2) THEN body2.v ELSE <<>>

\* the body segment: lines 53-56 and the `body or ""` of line 64
BodySegment(body) ==
  LET body1 == IF Truthy(body) /\ StartsWith(body.v, <<"-", "-", "-">>)
               THEN None ELSE body
      body2 == IF Truthy(body1) THEN Some(SignatureRegexSub(body1.v)) ELSE body1
  IN  IF Truthy(body2) THEN body2.v ELSE <<>>

\* the text that is hashed: "%s:%s:%s:%s" % (method, path, body or "", key)
SignatureText(method, path, body, key) ==
  method \o <<":">> \o CanonicalPath(path) \o <<":">> \o BodySegment(body)
         \o <<":">> \o SignatureRegexSub(key)

\* compute_signature(method, path, body, key)
compute_signature(method, path, body, key) ==
  Lower(sha1_hexdigest(SignatureText(method, path, body, key)))

(***************************************************************************)
(* motioneye_client/const.py                                                *)
(***************************************************************************)
DEFAULT_ADMIN_USERNAME == <<"a","d","m","i","n">>
DEFAULT_SURVEILLANCE_USERNAME == <<"u","s","e","r">>
DEFAULT_URL_SCHEME == HTTP
KEY_HOST == "host"
KEY_ID == "id"
KEY_STREAMING_PORT == "streaming_port"
KEY_VIDEO_STREAMING == "video_streaming"

(***************************************************************************)
(* motioneye_client/client.py: the pure part.                               *)
(*                                                                          *)
(* A client object is a record of its attributes; `alive` tells a           *)
(* constructed object from the absence of one.  The aiohttp session that    *)
(* self._session refers to is the variable `session` below.                 *)
(***************************************************************************)
USERNAME_NAME == <<"_","u","s","e","r","n","a","m","e">>
GET == <<"G","E","T">>
POST == <<"P","O","S","T">>

NoClient ==
  [alive |-> FALSE, url |-> <<>>, admin_username |-> <<>>, admin_password |-> <<>>,
   surveillance_username |-> <<>>, surveillance_password |-> <<>>]

\* `x or default` for an optional text
OrDefault(o, default) == IF Truthy(o) THEN o.v ELSE default

\* __init__, lines 70-77: the attributes of the constructed object
NewClient(url, admin_username, admin_password, surveillance_username, surveillance_password) ==
  [alive |-> TRUE,
   url |-> url,
   admin_username |-> OrDefault(admin_username, DEFAULT_ADMIN_USERNAME),
   admin_password |-> OrDefault(admin_password, <<>>),
   surveillance_username |->
       OrDefault(surveillance_username, DEFAULT_SURVEILLANCE_USERNAME),
   surveillance_password |-> OrDefault(surveillance_password, <<>>)]

\* __init__, lines 64-68: what the constructor raises for this URL, "" for
\* nothing.  urlsplit's own ValueError is not caught.
InitRaises(url) ==
  IF UrlsplitRaises(url) THEN "ValueError"
  ELSE LET parsed == urlsplit(url, <<>>)
       IN  IF Len(parsed.scheme) = 0 \/ Len(parsed.netloc) = 0
           THEN "MotionEyeClientURLParseError"
           ELSE ""

\* _build_url, lines 105-106
SelectedUsername(c, admin) ==
  IF admin THEN c.admin_username ELSE c.surveillance_username

SelectedPassword(c, admin) ==
  IF admin THEN c.admin_password ELSE c.surveillance_password

\* _build_url, line 115
SignatureKey(c, admin) == sha1_hexdigest(SelectedPassword(c, admin))

\* _build_url, lines 108-114: the URL before the signature is appended
UnsignedUrl(c, path, params, admin) ==
  urljoin(c.url,
          path \o <<"?">>
               \o urlencode(DictUpdate(params, USERNAME_NAME,
                                       SelectedUsername(c, admin))))

\* _build_url(path, params, data, method, admin); params None is the empty dict
build_url(c, path, params, data, method, admin) ==
  LET url == UnsignedUrl(c, path, params, admin)
      signature == compute_signature(method, url, data, SignatureKey(c, admin))
  IN  url \o <<"&","_","s","i","g","n","a","t","u","r","e","=">> \o signature

\* is_camera_streaming without line 227: the streaming flag is not looked at
is_camera_streaming_PortOnly(camera) ==
  /\ DOMAIN camera # {}
  /\ KEY_STREAMING_PORT \in DOMAIN camera

\* is_camera_streaming(camera); a camera is a function from its keys
is_camera_streaming(camera) ==
  /\ DOMAIN camera # {}
  /\ KEY_STREAMING_PORT \in DOMAIN camera
  /\ KEY_VIDEO_STREAMING \in DOMAIN camera
  /\ camera[KEY_VIDEO_STREAMING]

\* get_camera_stream_url(camera): None, or Some(url)
get_camera_stream_url(c, camera) ==
  IF is_camera_streaming(camera)
  THEN LET host == Split(urlsplit(c.url, <<>>).netloc, ":")[1]
       IN  Some(urlunsplit([scheme |-> DEFAULT_URL_SCHEME,
                            netloc |-> host \o <<":">>
                                           \o DecStr(camera[KEY_STREAMING_PORT]),
                            path |-> <<"/">>, query |-> <<>>, fragment |-> <<>>]))
  ELSE None

(***************************************************************************)
(* The request executor, _async_request lines 150-176, as a function of     *)
(* what the transport (aiohttp) delivers.                                   *)
(*                                                                          *)
(* An outcome of the transport is either a response (status, body bytes)    *)
(* or an exception raised while the request is awaited:                     *)
(*   ClientConnectorError    the connection could not be established (name  *)
(*                           resolution failed, connection refused);        *)
(*   ServerDisconnectedError the peer closed the established connection     *)
(*                           before a response;                             *)
(*   ClientOSError           the established connection was reset;          *)
(*   TimeoutError            asyncio's, after the session's total timeout;  *)
(*   RuntimeError            "Session is closed".                           *)
(* The first three are aiohttp.ClientError, the first alone is a            *)
(* ClientConnectorError; the last two are neither.                          *)
(***************************************************************************)
HTTP_FORBIDDEN == 403

\* the response statuses of the model
Statuses == {200, 299, 304, HTTP_FORBIDDEN, 404}

\* the longest response body of the model, in bytes
MaxBodyLen == 2

\* body bytes: a space, a digit, a letter, and the byte 0xFF (never valid UTF-8)
BodyBytes == {" ", "1", "x", "<FF>"}

Bodies == UNION {[1..n -> BodyBytes] : n \in 0..MaxBodyLen}

Responses ==
  {[kind |-> "response", exc |-> "", cause |-> "", status |-> s, body |-> b] :
     s \in Statuses, b \in Bodies}

Failure(exc, cause) ==
  [kind |-> "failure", exc |-> exc, cause |-> cause, status |-> 0, body |-> <<>>]

\* no response is received in any of these
TransportFailures ==
  {Failure("ClientConnectorError", "name resolution failed"),
   Failure("ClientConnectorError", "connection refused"),
   Failure("ServerDisconnectedError", "closed by peer before a response"),
   Failure("ClientOSError", "reset by peer before a response"),
   Failure("TimeoutError", "no response within the timeout")}

SessionClosedFailure == Failure("RuntimeError", "session is closed")

NoResp == [kind |-> "none", exc |-> "", cause |-> "", status |-> 0, body |-> <<>>]

\* the handler of line 171 placed after that of line 174: ClientError is
\* caught first, and no exception reaches the connector handler
IsClientConnectorError_Shadowed(exc) == exc \in {}

\* except aiohttp.client_exceptions.ClientConnectorError, line 171
IsClientConnectorError(exc) == exc = "ClientConnectorError"

\* except aiohttp.client_exceptions.ClientError, line 174
IsClientError(exc) ==
  exc \in {"ClientConnectorError", "ServerDisconnectedError", "ClientOSError"}

\* the classes of lines 28-49: every client error derives from MotionEyeClientError
IsMotionEyeClientError(exc) ==
  exc \in {"MotionEyeClientError", "MotionEyeClientInvalidAuthError",
           "MotionEyeClientConnectionError", "MotionEyeClientRequestError",
           "MotionEyeClientURLParseError", "MotionEyeClientPathError"}

\* JSON values: null and the numbers; a handle is the client itself or None
JNull == [t |-> "null", n |-> 0]
JNumber(n) == [t |-> "number", n |-> n]
SelfValue == [t |-> "self", n |-> 0]
TrueValue == [t |-> "bool", n |-> 1]

\* what a call gave its caller
Return(value) == [kind |-> "return", exc |-> "", value |-> value]
Raise(exc) == [kind |-> "raise", exc |-> exc, value |-> JNull]

\* response.ok (aiohttp): the status is below 400
ResponseOk(status) == status < 400

RECURSIVE StripBytes(_)
\* bytes.strip(): here the space is the only whitespace byte
StripBytes(b) ==
  IF Len(b) > 0 /\ b[1] = " " THEN StripBytes(Tail(b))
  ELSE IF Len(b) > 0 /\ b[Len(b)] = " " THEN StripBytes(Upto(b, Len(b) - 1))
  ELSE b

RECURSIVE DecVal(_)
\* int(digits)
DecVal(s) ==
  IF Len(s) = 0 THEN 0
  ELSE 10 * DecVal(Upto(s, Len(s) - 1)) + HexVal(s[Len(s)])

\* json.loads(text) on the texts of the model: a number, or JSONDecodeError
json_loads(text) ==
  IF /\ Len(text) > 0
     /\ \A i \in 1..Len(text) : IsDigit(text[i])
     /\ (Len(text) > 1 => text[1] # "0")
  THEN Return(JNumber(DecVal(text)))
  ELSE Raise("JSONDecodeError")

\* response.json(content_type=None) (aiohttp): None for a body that is empty
\* once stripped, else the stripped body decoded (UTF-8) and parsed
response_json(body) ==
  LET stripped == StripBytes(body)
  IN  IF Len(stripped) = 0 THEN Return(JNull)
      ELSE IF \E i \in 1..Len(stripped) : stripped[i] = "<FF>"
      THEN Raise("UnicodeDecodeError")
      ELSE json_loads(stripped)

\* _async_request with `except json.decoder.JSONDecodeError` alone at line
\* 168: the UnicodeDecodeError of an undecodable body escapes
AsyncRequestResult_JsonErrorOnly(o) ==
  IF o.kind = "response"
  THEN IF o.status = HTTP_FORBIDDEN
       THEN Raise("MotionEyeClientInvalidAuthError")
       ELSE IF ~ResponseOk(o.status)
       THEN Raise("MotionEyeClientRequestError")
       ELSE LET r == response_json(o.body)
            IN  IF r.kind = "raise" /\ r.exc = "JSONDecodeError"
                THEN Raise("MotionEyeClientRequestError")
                ELSE r
  ELSE IF IsClientConnectorError(o.exc)
       THEN Raise("MotionEyeClientConnectionError")
       ELSE IF IsClientError(o.exc)
       THEN Raise("MotionEyeClientRequestError")
       ELSE Raise(o.exc)

\* lines 150-176: what _async_request gives its caller for a transport outcome
AsyncRequestResult(o) ==
  IF o.kind = "response"
  THEN IF o.status = HTTP_FORBIDDEN
       THEN Raise("MotionEyeClientInvalidAuthError")
       ELSE IF ~ResponseOk(o.status)
       THEN Raise("MotionEyeClientRequestError")
       ELSE LET r == response_json(o.body)
            IN  IF r.kind = "raise" /\ r.exc \in {"JSONDecodeError", "UnicodeDecodeError"}
                THEN Raise("MotionEyeClientRequestError")
                ELSE r
  ELSE IF IsClientConnectorError(o.exc)
       THEN Raise("MotionEyeClientConnectionError")
       ELSE IF IsClientError(o.exc)
       THEN Raise("MotionEyeClientRequestError")
       ELSE Raise(o.exc)

\* __aenter__ with `except MotionEyeClientConnectionError` at line 83
AEnterResult_ConnectionErrorOnly(login) ==
  IF login.kind = "raise"
  THEN IF login.exc = "MotionEyeClientConnectionError" THEN Return(JNull) ELSE login
  ELSE Return(SelfValue)

\* __aenter__, lines 79-85: a client error of the login becomes None
AEnterResult(login) ==
  IF login.kind = "raise"
  THEN IF IsMotionEyeClientError(login.exc) THEN Return(JNull) ELSE login
  ELSE Return(SelfValue)

\* a close that raises on a session closed before: the call does not complete
SessionClose_RaisesWhenClosed(s) == IF s = "open" THEN "closed" ELSE "error"

\* ClientSession.close() (aiohttp): closes an open session, and does nothing
\* to a closed one
SessionClose(s) == IF s = "open" THEN "closed" ELSE s

(***************************************************************************)
(* The snapshot, movie and image URLs, lines 251-290, and pathlib's         *)
(* PurePath (POSIX flavour) as far as _strip_leading_slash uses it.         *)
(***************************************************************************)
PICTURE_PREFIX == <<"/","p","i","c","t","u","r","e","/">>
MOVIE_PREFIX == <<"/","m","o","v","i","e","/">>
PATH_ERROR == "MotionEyeClientPathError"

\* get_camera_snapshot_url with admin=True: signed with the admin credentials
get_camera_snapshot_url_AsAdmin(c, camera) ==
  IF ~is_camera_streaming(camera) \/ KEY_ID \notin DOMAIN camera THEN None
  ELSE Some(build_url(c,
                      urljoin(c.url, PICTURE_PREFIX \o DecStr(camera[KEY_ID])
                                       \o <<"/","c","u","r","r","e","n","t","/">>),
                      <<>>, None, GET, TRUE))

\* get_camera_snapshot_url(camera): None, or Some(url)
get_camera_snapshot_url(c, camera) ==
  IF ~is_camera_streaming(camera) \/ KEY_ID \notin DOMAIN camera THEN None
  ELSE Some(build_url(c,
                      urljoin(c.url, PICTURE_PREFIX \o DecStr(camera[KEY_ID])
                                       \o <<"/","c","u","r","r","e","n","t","/">>),
                      <<>>, None, GET, FALSE))

\* the number of separators a path starts with
LeadingSlashes(path) ==
  LET others == {i \in 1..Len(path) : path[i] # "/"}
  IN  IF others = {} THEN Len(path) ELSE SetMin(others) - 1

\* PurePosixPath: the root of a path; exactly two leading separators are kept
PurePathRoot(path) ==
  IF LeadingSlashes(path) = 0 THEN <<>>
  ELSE IF LeadingSlashes(path) = 2 THEN <<"/", "/">>
  ELSE <<"/">>

\* PurePosixPath: the names of a path; empty and "." components are dropped
PurePathNames(path) ==
  SelectSeq(Split(path, "/"), LAMBDA x : Len(x) > 0 /\ x # <<".">>)

\* PurePath(path).parts
PurePathParts(path) ==
  (IF Len(PurePathRoot(path)) = 0 THEN <<>> ELSE <<PurePathRoot(path)>>)
    \o PurePathNames(path)

\* str(PurePath(*names)) for names without a separator
PurePathStr(names) == IF Len(names) = 0 THEN <<".">> ELSE Join(names, <<"/">>)

\* _strip_leading_slash(path): Return(Some(path)) or the path error
strip_leading_slash(path) ==
  IF Len(PurePathParts(path)) = 0 THEN Raise(PATH_ERROR)
  ELSE IF PurePathParts(path)[1] = <<"/">>
       THEN Return(Some(PurePathStr(From(PurePathParts(path), 2))))
       ELSE Return(Some(path))

\* get_movie_url, get_image_url: the signed URL of prefix/camera_id/action/path
MediaUrl(c, prefix, camera_id, action, path) ==
  IF strip_leading_slash(path).kind = "raise" THEN strip_leading_slash(path)
  ELSE Return(Some(build_url(c,
                             urljoin(c.url,
                                     prefix \o DecStr(camera_id) \o <<"/">>
                                            \o action \o <<"/">>
                                            \o strip_leading_slash(path).value.v),
                             <<>>, None, GET, TRUE)))

\* get_movie_url(camera_id, path, preview)
get_movie_url(c, camera_id, path, preview) ==
  MediaUrl(c, MOVIE_PREFIX, camera_id,
           IF preview THEN <<"p","r","e","v","i","e","w">> ELSE <<"p","l","a","y","b","a","c","k">>, path)

\* get_image_url(camera_id, path, preview)
get_image_url(c, camera_id, path, preview) ==
  MediaUrl(c, PICTURE_PREFIX, camera_id,
           IF preview THEN <<"p","r","e","v","i","e","w">> ELSE <<"d","o","w","n","l","o","a","d">>, path)

(***************************************************************************)
(* The client as a state machine.  One caller uses one client: it           *)
(* constructs it, calls its methods one at a time, may enter and leave the  *)
(* guarded scope (async with), and may close it.  A request method runs up  *)
(* to its await (BUILD, SEND), and ends when the transport delivers an      *)
(* outcome.                                                                 *)
(***************************************************************************)
VARIABLES
  self,            \* the client object, NoClient before construction
  session,         \* the session the client created: "none", "open", "closed"
  caller_session,  \* a session the caller made to hand over: "none", "open", "closed"
  pc,              \* "idle", or "AWAIT_RESPONSE" while a request is awaited
  call,            \* the last call: its name and arguments
  resp,            \* the last outcome the transport delivered
  ret,             \* what the last call gave the caller
  scope,           \* the guarded scope: "out", "entering", "in"
  handle           \* what the scope bound: "none", "client", "null"

vars == <<self, session, caller_session, pc, call, resp, ret, scope, handle>>

NoCall == [op |-> "none"]
NoRet == [kind |-> "none", exc |-> "", value |-> JNull]

\* the camera ids a caller passes
CameraIds == {1}

\* base URLs handed to the constructor
CtorUrls ==
  {<<"h","t","t","p",":","/","/","h",":","8">>, <<"h",":","8","/">>, <<"h","t","t","p",":","/","/">>, <<"/","/","h">>, <<>>,
   <<"h","t","t","p",":","/","/","[",":",":","1">>}

\* the credential arguments handed to the constructor
CtorCredentials ==
  {<<None, None, None, None>>,
   <<Some(<<"a","d">>), Some(<<"p","w">>), Some(<<"s","u">>), Some(<<"p"," ","w">>)>>}

\* action names and media prefixes a caller passes
ActionNames == {<<"s","n","a","p","s","h","o","t">>, <<"a","#","b">>}
Prefixes == {None, Some(<<"m"," ","o">>)}

\* camera configurations a caller sets: dicts of text
Configs == {<<>>, << <<<<"n","a","m","e">>, <<"c">>>> >>}

\* json.dumps(d) for a dict of texts without characters to escape
json_dumps(d) ==
  <<"{">> \o Join([i \in 1..Len(d) |->
                     <<"\"">> \o d[i][1] \o <<"\"", ":", " ", "\"">> \o d[i][2]
                              \o <<"\"">>],
                  <<",", " ">>)
          \o <<"}">>

\* an optional dict: None, or Some(dict)
NoData == [some |-> FALSE, v |-> <<>>]
SomeData(d) == [some |-> TRUE, v |-> d]

\* line 130
SerializedJson(data) == IF data.some THEN Some(json_dumps(data.v)) ELSE None

\* the URL the call in flight was sent to: lines 131-137
CallUrl(c, k) == build_url(c, k.path, k.params, k.serialized_json, k.method, k.admin)

\* __init__(url, ..., session=...): the code takes no session argument, and
\* Python raises TypeError for the unexpected keyword
Construct ==
  /\ ~self.alive
  /\ pc = "idle"
  /\ \E url \in CtorUrls, cr \in CtorCredentials, session_given \in BOOLEAN :
       /\ call' = [op |-> "__init__", url |-> url, session_given |-> session_given]
       /\ caller_session' = IF session_given THEN "open" ELSE caller_session
       /\ IF session_given
          THEN ret' = Raise("TypeError") /\ UNCHANGED <<self, session>>
          ELSE IF InitRaises(url) # ""
          THEN ret' = Raise(InitRaises(url)) /\ UNCHANGED <<self, session>>
          ELSE /\ self' = NewClient(url, cr[1], cr[2], cr[3], cr[4])
               /\ session' = "open"
               /\ ret' = Return(SelfValue)
  /\ UNCHANGED <<pc, resp, scope, handle>>

\* _async_request, lines 130-148: BUILD and SEND, up to the await
AsyncRequest(op, path, params, data, method, admin) ==
  /\ self.alive
  /\ pc = "idle"
  /\ pc' = "AWAIT_RESPONSE"
  /\ call' = [op |-> op, path |-> path, params |-> params,
              serialized_json |-> SerializedJson(data),
              content_type_json |-> Truthy(SerializedJson(data)),
              method |-> method,
              func |-> IF method = GET THEN "get" ELSE "post",
              admin |-> admin]
  /\ resp' = NoResp
  /\ ret' = NoRet
  /\ UNCHANGED <<self, session, caller_session>>

\* a request method called by the caller, outside __aenter__
Facade(op, path, params, data, method) ==
  /\ scope # "entering"
  /\ AsyncRequest(op, path, params, data, method, TRUE)
  /\ UNCHANGED <<scope, handle>>

ConfigPath(camera_id, verb) == <<"/","c","o","n","f","i","g","/">> \o DecStr(camera_id) \o <<"/">> \o verb

PrefixParams(prefix) ==
  IF Truthy(prefix) THEN << <<<<"p","r","e","f","i","x">>, prefix.v>> >> ELSE <<>>

async_client_login ==
  Facade("async_client_login", <<"/","l","o","g","i","n">>, <<>>, NoData, GET)

async_get_manifest ==
  Facade("async_get_manifest", <<"/","m","a","n","i","f","e","s","t",".","j","s","o","n">>, <<>>, NoData, GET)

async_get_server_config ==
  Facade("async_get_server_config", <<"/","c","o","n","f","i","g","/","m","a","i","n","/","g","e","t">>, <<>>, NoData, GET)

async_get_cameras ==
  Facade("async_get_cameras", <<"/","c","o","n","f","i","g","/","l","i","s","t">>, <<>>, NoData, GET)

async_get_camera ==
  \E camera_id \in CameraIds :
    Facade("async_get_camera", ConfigPath(camera_id, <<"g","e","t">>), <<>>, NoData, GET)

async_set_camera ==
  \E camera_id \in CameraIds, config \in Configs :
    Facade("async_set_camera", ConfigPath(camera_id, <<"s","e","t">>), <<>>,
           SomeData(config), POST)

async_action ==
  \E camera_id \in CameraIds, action \in ActionNames :
    Facade("async_action", <<"/","a","c","t","i","o","n","/">> \o DecStr(camera_id) \o <<"/">> \o action,
           <<>>, SomeData(<<>>), POST)

async_get_movies ==
  \E camera_id \in CameraIds, prefix \in Prefixes :
    Facade("async_get_movies", <<"/","m","o","v","i","e","/">> \o DecStr(camera_id) \o <<"/","l","i","s","t">>,
           PrefixParams(prefix), NoData, GET)

async_get_images ==
  \E camera_id \in CameraIds, prefix \in Prefixes :
    Facade("async_get_images", <<"/","p","i","c","t","u","r","e","/">> \o DecStr(camera_id) \o <<"/","l","i","s","t">>,
           PrefixParams(prefix), NoData, GET)

\* __aenter__, line 82: the login of the guarded scope
AEnter ==
  /\ scope = "out"
  /\ AsyncRequest("__aenter__", <<"/","l","o","g","i","n">>, <<>>, NoData, GET, TRUE)
  /\ scope' = "entering"
  /\ handle' = "none"

\* the outcomes the transport can deliver: a closed session delivers none
Outcomes ==
  IF session = "open" THEN Responses \cup TransportFailures
  ELSE {SessionClosedFailure}

\* the awaited request ends: lines 150-176, and lines 83-85 inside __aenter__
Respond ==
  /\ pc = "AWAIT_RESPONSE"
  /\ \E o \in Outcomes :
       LET r == AsyncRequestResult(o)
           e == AEnterResult(r)
       IN  /\ resp' = o
           /\ IF call.op = "__aenter__"
              THEN /\ ret' = e
                   /\ scope' = IF e.kind = "return" THEN "in" ELSE "out"
                   /\ handle' = IF e.kind = "raise" THEN "none"
                                ELSE IF e.value = SelfValue THEN "client"
                                ELSE "null"
              ELSE /\ ret' = r
                   /\ UNCHANGED <<scope, handle>>
  /\ pc' = "idle"
  /\ UNCHANGED <<self, session, caller_session, call>>

\* async_client_close, lines 182-185
async_client_close ==
  /\ self.alive
  /\ pc = "idle"
  /\ scope # "entering"
  /\ session' = SessionClose(session)
  /\ call' = [op |-> "async_client_close"]
  /\ ret' = Return(TrueValue)
  /\ UNCHANGED <<self, caller_session, pc, resp, scope, handle>>

\* __aexit__, lines 87-94: the scope is left, whether its body raised or not
AExit ==
  /\ scope = "in"
  /\ pc = "idle"
  /\ \E body_raised \in BOOLEAN :
       call' = [op |-> "__aexit__", body_raised |-> body_raised]
  /\ session' = SessionClose(session)
  /\ ret' = Return(JNull)
  /\ scope' = "out"
  /\ handle' = "none"
  /\ UNCHANGED <<self, caller_session, pc, resp>>

Init ==
  /\ self = NoClient
  /\ session = "none"
  /\ caller_session = "none"
  /\ pc = "idle"
  /\ call = NoCall
  /\ resp = NoResp
  /\ ret = NoRet
  /\ scope = "out"
  /\ handle = "none"

Next ==
  \/ Construct
  \/ async_client_login
  \/ async_get_manifest
  \/ async_get_server_config
  \/ async_get_cameras
  \/ async_get_camera
  \/ async_set_camera
  \/ async_action
  \/ async_get_movies
  \/ async_get_images
  \/ AEnter
  \/ Respond
  \/ async_client_close
  \/ AExit

Spec == Init /\ [][Next]_vars

(***************************************************************************)
(* The URL methods are pure functions of the client's attributes and their  *)
(* arguments: SpecUrl starts from a constructed client, and its actions     *)
(* call them once each on arguments drawn from the sets below.              *)
(***************************************************************************)
\* base URLs the constructor accepts
UrlBases == {<<"h","t","t","p",":","/","/","h",":","8">>, <<"h","t","t","p","s",":","/","/","u",":","p","@","h","/","b","/">>, <<"h","t","t","p","s",":","/","/","h">>}

UrlClients ==
  {NewClient(u, cr[1], cr[2], cr[3], cr[4]) : u \in UrlBases, cr \in CtorCredentials}

\* paths handed to _build_url: those of the request methods, with the action
\* names and media paths a caller supplies
BuildPaths ==
  {<<"/","l","o","g","i","n">>, <<"/","c","o","n","f","i","g","/","1","/","s","e","t">>, <<"/","a","c","t","i","o","n","/","1","/","s","n","a","p","s","h","o","t">>, <<"/","a","c","t","i","o","n","/","1","/","a","#","b">>,
   <<"/","m","o","v","i","e","/","1","/","p","l","a","y","b","a","c","k","/","a","?","b">>}

\* parameter mappings handed to _build_url
BuildParams ==
  {<<>>,
   << <<<<"p","r","e","f","i","x">>, <<"m"," ","o">>>> >>,
   << <<USERNAME_NAME, <<"z">>>>, <<<<"a">>, <<"1">>>> >>,
   << <<SIGNATURE_NAME, <<"x">>>> >>}

\* serialized bodies handed to _build_url and compute_signature
BuildBodies == {None, Some(<<"{","}">>), Some(json_dumps(<< <<<<"n","a","m","e">>, <<"c">>>> >>))}

\* the streaming ports and host overrides of the cameras of the model
StreamingPorts == {8081}
HostOverrides == {<<"f","o","o","b","a","r">>}

CameraKeys == {KEY_STREAMING_PORT, KEY_VIDEO_STREAMING, KEY_ID, KEY_HOST}

\* a camera dict with the keys K
CameraDict(K, port, streaming, id, host) ==
  [k \in K |-> CASE k = KEY_STREAMING_PORT -> port
                 [] k = KEY_VIDEO_STREAMING -> streaming
                 [] k = KEY_ID -> id
                 [] k = KEY_HOST -> host]

Cameras ==
  {CameraDict(K, port, streaming, id, host) :
     K \in SUBSET CameraKeys, port \in StreamingPorts, streaming \in BOOLEAN,
     id \in CameraIds, host \in HostOverrides}

\* a pure call is made when no call is recorded
PureCall == pc = "idle" /\ call.op = "none"

\* _build_url called with arbitrary arguments
BuildUrl ==
  /\ PureCall
  /\ self.alive
  /\ \E path \in BuildPaths, params \in BuildParams, data \in BuildBodies,
        method \in {GET, POST}, admin \in BOOLEAN :
       /\ call' = [op |-> "_build_url", path |-> path, params |-> params,
                   data |-> data, method |-> method, admin |-> admin]
       /\ ret' = Return(Some(build_url(self, path, params, data, method, admin)))
  /\ UNCHANGED <<self, session, caller_session, pc, resp, scope, handle>>

\* get_camera_stream_url(camera)
GetCameraStreamUrl ==
  /\ PureCall
  /\ self.alive
  /\ \E camera \in Cameras :
       /\ call' = [op |-> "get_camera_stream_url", camera |-> camera]
       /\ ret' = Return(get_camera_stream_url(self, camera))
  /\ UNCHANGED <<self, session, caller_session, pc, resp, scope, handle>>

\* get_camera_snapshot_url(camera)
GetCameraSnapshotUrl ==
  /\ PureCall
  /\ self.alive
  /\ \E camera \in Cameras :
       /\ call' = [op |-> "get_camera_snapshot_url", camera |-> camera]
       /\ ret' = Return(get_camera_snapshot_url(self, camera))
  /\ UNCHANGED <<self, session, caller_session, pc, resp, scope, handle>>

\* the media paths handed to get_movie_url and get_image_url
MediaPaths ==
  {<<>>, <<"/">>, <<"f","o","o">>, <<"/","f","o","o">>, <<"f","o","o","/">>, <<"/","f","o","o","/">>, <<"/","/","f","o","o">>, <<"/","/","/","f","o","o">>,
   <<".">>, <<"/",".">>, <<"a","/","b",".","m","p","4">>, <<"/","a","/","b",".","m","p","4">>, <<"a","?","_","u","s","e","r","n","a","m","e","=","z">>}

\* get_movie_url(camera_id, path, preview)
GetMovieUrl ==
  /\ PureCall
  /\ self.alive
  /\ \E camera_id \in CameraIds, path \in MediaPaths, preview \in BOOLEAN :
       /\ call' = [op |-> "get_movie_url", camera_id |-> camera_id,
                   path |-> path, preview |-> preview]
       /\ ret' = get_movie_url(self, camera_id, path, preview)
  /\ UNCHANGED <<self, session, caller_session, pc, resp, scope, handle>>

\* get_image_url(camera_id, path, preview)
GetImageUrl ==
  /\ PureCall
  /\ self.alive
  /\ \E camera_id \in CameraIds, path \in MediaPaths, preview \in BOOLEAN :
       /\ call' = [op |-> "get_image_url", camera_id |-> camera_id,
                   path |-> path, preview |-> preview]
       /\ ret' = get_image_url(self, camera_id, path, preview)
  /\ UNCHANGED <<self, session, caller_session, pc, resp, scope, handle>>

\* the caller drops the result
Forget ==
  /\ pc = "idle"
  /\ call.op \in {"_build_url", "get_camera_stream_url", "compute_signature",
                 "get_camera_snapshot_url", "get_movie_url", "get_image_url"}
  /\ call' = NoCall
  /\ ret' = NoRet
  /\ UNCHANGED <<self, session, caller_session, pc, resp, scope, handle>>

InitUrl ==
  /\ self \in UrlClients
  /\ session = "open"
  /\ caller_session = "none"
  /\ pc = "idle"
  /\ call = NoCall
  /\ resp = NoResp
  /\ ret = NoRet
  /\ scope = "out"
  /\ handle = "none"

NextUrl ==
  \/ BuildUrl
  \/ GetCameraStreamUrl
  \/ GetCameraSnapshotUrl
  \/ GetMovieUrl
  \/ GetImageUrl
  \/ Forget

SpecUrl == InitUrl /\ [][NextUrl]_vars

(***************************************************************************)
(* utils.compute_signature is a function of its arguments alone: SpecSig    *)
(* calls it on URLs put together from a path, raw query fields and a        *)
(* fragment.                                                                *)
(***************************************************************************)
\* the most query fields of a signed URL of the model
MaxFields == 3

\* raw name=value fields of a query string
RawFields ==
  {<<"_","s","i","g","n","a","t","u","r","e","=","x">>, <<"_","s","i","g","n","a","t","u","r","e">>, <<"%","5","F","s","i","g","n","a","t","u","r","e","=","y">>, <<"a","=","1">>, <<"a","=">>,
   <<"b","=","%","2","6">>}

\* the queries of the model: up to MaxFields raw fields, no field twice
RawQueries ==
  UNION {{q \in [1..n -> RawFields] : \A i, j \in 1..n : i # j => q[i] # q[j]} :
           n \in 0..MaxFields}

SigPaths == {<<"/","l","o","g","i","n">>, <<"h","t","t","p",":","/","/","h",":","8","/","p">>}
SigFragments == {<<>>, <<"#","f">>}
SigKeys == {sha1_hexdigest(<<"p","w">>)}

\* a URL with these raw fields as its query
UrlWithFields(path, fields, fragment) ==
  path \o (IF Len(fields) > 0 THEN <<"?">> \o Join(fields, <<"&">>) ELSE <<>>)
       \o fragment

\* bodies handed to compute_signature: those of the URL builder, the empty
\* text, multipart bodies, and bodies with characters the filter replaces
SigBodies ==
  BuildBodies \cup {Some(<<>>), Some(<<"-","-","-">>), Some(<<"-","-","-","{","}">>), Some(<<"-","-","+","-">>),
                    Some(<<"a","+","b","%">>)}

\* every body is signed with the queries of at most one field, the bodies of
\* the URL builder with every query
BodiesFor(fields) == IF Len(fields) <= 1 THEN SigBodies ELSE BuildBodies

ComputeSignature ==
  /\ PureCall
  /\ \E path \in SigPaths, fields \in RawQueries, fragment \in SigFragments,
        method \in {GET, POST}, key \in SigKeys :
     \E body \in BodiesFor(fields) :
       /\ call' = [op |-> "compute_signature", method |-> method, path |-> path,
                   fields |-> fields, fragment |-> fragment, body |-> body,
                   key |-> key]
       /\ ret' = Return(Some(compute_signature(
                    method, UrlWithFields(path, fields, fragment), body, key)))
  /\ UNCHANGED <<self, session, caller_session, pc, resp, scope, handle>>

NextSig ==
  \/ ComputeSignature
  \/ Forget

SpecSig == Init /\ [][NextSig]_vars

(***************************************************************************)
(* The claims.  Each is stated over the calls recorded in call and ret.     *)
(***************************************************************************)
\* a raw query field names the signature parameter when its decoded name is
\* _signature
IsSignatureField(field) == ParseField(field)[1] = SIGNATURE_NAME

\* the raw fields of a query string, empty fields included
QueryFields(qs) == IF Len(qs) = 0 THEN <<>> ELSE Split(qs, "&")

\* a URL with the signature parameters taken out of its query string
WithoutSignature(url) ==
  LET p == urlsplit(url, <<>>)
      kept == SelectSeq(QueryFields(p.query), LAMBDA f : ~IsSignatureField(f))
  IN  urlunsplit([p EXCEPT !.query = Join(kept, <<"&">>)])

\* the query parameters of a URL, decoded
QueryPairs(url) == parse_qsl(urlsplit(url, <<>>).query)

\* a URL is signed for a request when its query has _username, exactly one
\* _signature, the last parameter, and that one is the signature of the
\* request
SignedFor(url, method, data, key) ==
  LET pairs == QueryPairs(url)
  IN  /\ \E i \in 1..Len(pairs) : pairs[i][1] = USERNAME_NAME
      /\ Cardinality({i \in 1..Len(pairs) : pairs[i][1] = SIGNATURE_NAME}) = 1
      /\ Len(pairs) > 0
      /\ pairs[Len(pairs)][1] = SIGNATURE_NAME
      /\ pairs[Len(pairs)][2] =
           compute_signature(method, WithoutSignature(url), data, key)

\* C1: every URL _build_url returns, whatever the path, the parameters, the
\* body, the method and the credentials chosen, has _username in its query
\* string and exactly one _signature, which is the last parameter and equals
\* compute_signature of the same request without the signature.
C1_BuiltUrlIsSigned ==
  (call.op = "_build_url" /\ ret.kind = "return") =>
    SignedFor(ret.value.v, call.method, call.data, SignatureKey(self, call.admin))

\* the same for the paths and parameters without a query or fragment
\* delimiter and without a _signature parameter of their own
C1_PlainInputsAreSigned ==
  (/\ call.op = "_build_url"
   /\ ret.kind = "return"
   /\ ~Has(call.path, "#")
   /\ ~Has(call.path, "?")
   /\ ~DictHas(call.params, SIGNATURE_NAME)) =>
    SignedFor(ret.value.v, call.method, call.data, SignatureKey(self, call.admin))

\* the request methods of the facade
RequestMethods ==
  {"async_client_login", "async_get_manifest", "async_get_server_config",
   "async_get_cameras", "async_get_camera", "async_set_camera", "async_action",
   "async_get_movies", "async_get_images"}

\* a request method has ended and given its caller ret for the outcome resp
RequestDone == pc = "idle" /\ call.op \in RequestMethods /\ resp.kind # "none"

SuccessStatuses == 200..299

\* C2: for every HTTP response a request method receives, 403 raises the
\* authentication error, every other status outside 200-299 raises the
\* request error, and only a status in 200-299 can return a result.
C2_StatusDecides ==
  (RequestDone /\ resp.kind = "response") =>
    /\ resp.status = 403 => ret = Raise("MotionEyeClientInvalidAuthError")
    /\ (resp.status # 403 /\ resp.status \notin SuccessStatuses)
         => ret = Raise("MotionEyeClientRequestError")
    /\ ret.kind = "return" => resp.status \in SuccessStatuses

Spaces(n) == [i \in 1..n |-> " "]

\* the body is the JSON text of the number n: its digits between optional
\* whitespace
IsJsonNumber(b, n) ==
  LET digits == DecStr(n)
  IN  \E l \in 0..(Len(b) - Len(digits)) :
        b = Spaces(l) \o digits \o Spaces(Len(b) - Len(digits) - l)

\* the numbers a body can spell: none when it holds another character than
\* digits and whitespace
NumbersOf(b) ==
  IF \A i \in 1..Len(b) : IsDigit(b[i]) \/ b[i] = " "
  THEN 0..(10 ^ Len(b)) ELSE {}

HasJsonValue(b) == \E n \in NumbersOf(b) : IsJsonNumber(b, n)

IsBlank(b) == \A i \in 1..Len(b) : b[i] = " "

SuccessResponse ==
  RequestDone /\ resp.kind = "response" /\ resp.status \in SuccessStatuses

ConnectFailures == {"name resolution failed", "connection refused"}
PeerFailures == {"closed by peer before a response", "reset by peer before a response"}

\* C4: every transport failure without a response (name resolution failure,
\* connection refused, connection reset or closed by the peer) makes the
\* request method raise the connection error.
C4_NoResponseIsConnectionError ==
  (RequestDone /\ resp.kind = "failure"
     /\ resp.cause \in ConnectFailures \cup PeerFailures)
    => ret = Raise("MotionEyeClientConnectionError")

\* C4 amended: a failure to establish the connection (name resolution failure,
\* connection refused) makes the request method raise the connection error,
\* never the request or the authentication error; a connection reset or
\* closed by the peer before a response makes it raise the request error.
C4_ConnectFailureIsConnectionError ==
  (RequestDone /\ resp.kind = "failure") =>
    /\ resp.cause \in ConnectFailures
         => ret = Raise("MotionEyeClientConnectionError")
    /\ resp.cause \in PeerFailures
         => ret = Raise("MotionEyeClientRequestError")

\* a refused connection has been reported as the connection error
C4_Witness ==
  /\ RequestDone
  /\ resp.kind = "failure"
  /\ resp.cause = "connection refused"
  /\ ret = Raise("MotionEyeClientConnectionError")

\* the errors of the client-error category that a login can end in
LoginErrors ==
  {"MotionEyeClientConnectionError", "MotionEyeClientInvalidAuthError",
   "MotionEyeClientRequestError"}

\* the guarded enter has ended
EnterDone == call.op = "__aenter__" /\ pc = "idle"

C5_EnterResult ==
  EnterDone =>
    LET login == AsyncRequestResult(resp)
    IN  /\ handle = "client" <=> login.kind = "return"
        /\ login.kind = "return" => (ret = Return(SelfValue) /\ scope = "in")
        /\ (login.kind = "raise" /\ login.exc \in LoginErrors)
             => (ret = Return(JNull) /\ handle = "null" /\ scope = "in")

\* entering sends the one login request, and the only step out of entering
\* is the end of that request
C5_OneLogin ==
  /\ (scope # "entering" /\ scope' = "entering")
       => (/\ pc' = "AWAIT_RESPONSE"
           /\ call'.op = "__aenter__"
           /\ call'.path = <<"/","l","o","g","i","n">>
           /\ call'.method = GET)
  /\ scope = "entering"
       => (pc = "AWAIT_RESPONSE" /\ pc' = "idle" /\ call' = call /\ scope' # "entering")

\* C5: __aenter__ performs one login attempt and yields the client handle if
\* and only if that login succeeds; when the login ends in an error of the
\* client-error category (connection, authentication or request error) it
\* yields a null handle and raises nothing.
C5_EnterYieldsClientIffLoginSucceeds == [](C5_EnterResult) /\ [][C5_OneLogin]_vars

\* a login refused with 403 has ended in a null handle
C5_Witness ==
  /\ EnterDone
  /\ resp.kind = "response"
  /\ resp.status = 403
  /\ ret = Return(JNull)
  /\ handle = "null"

\* the base URL has a scheme and a network location
HasSchemeAndNetloc(url) ==
  Len(urlsplit(url, <<>>).scheme) > 0 /\ Len(urlsplit(url, <<>>).netloc) > 0

\* C6: a client can be given its session at construction, and then no
\* operation of the client closes that session; a session the client created
\* itself is released by an explicit close.
C6_SuppliedSessionIsNotClosed ==
  /\ (call.op = "__init__" /\ call.session_given /\ HasSchemeAndNetloc(call.url)
        /\ ~UrlsplitRaises(call.url))
       => (ret.kind = "return" /\ self.alive)
  /\ caller_session # "closed"
  /\ call.op = "async_client_close" => session = "closed"

\* C7: in every client state (never logged in, login failed, login succeeded,
\* already closed) close completes without error and leaves the session
\* closed, and a second close leaves the client and its session as the first
\* did; the exit of the guarded scope closes in the same way.
C7_CloseIsIdempotent ==
  call.op \in {"async_client_close", "__aexit__"} =>
    /\ ret.kind = "return"
    /\ self.alive
    /\ session = "closed"
    /\ SessionClose(session) = session

\* a client whose guarded login failed has been closed
C7_Witness ==
  /\ call.op = "async_client_close"
  /\ scope = "in"
  /\ handle = "null"
  /\ session = "closed"
  /\ ret.kind = "return"

\* C8: constructing a client fails with the URL-parse error exactly when the
\* base URL lacks a scheme or a network location, the failure comes before
\* any session is created, and a base URL that has both is accepted.
C8_UrlParseErrorIffIncomplete ==
  (call.op = "__init__" /\ ~call.session_given) =>
    /\ ret = Raise("MotionEyeClientURLParseError") <=> ~HasSchemeAndNetloc(call.url)
    /\ HasSchemeAndNetloc(call.url)
         => (ret = Return(SelfValue) /\ self.alive /\ session = "open")
    /\ ret.kind = "raise" => (~self.alive /\ session = "none")

\* C9: compute_signature of a URL whose query holds one or more _signature
\* parameters, at any position and with any value, equals compute_signature
\* of the same URL with those parameters removed, for the same method, body
\* and key.
C9_SignatureIgnoresSignature ==
  (call.op = "compute_signature" /\ ret.kind = "return") =>
    ret.value.v =
      compute_signature(
        call.method,
        UrlWithFields(call.path,
                      SelectSeq(call.fields, LAMBDA f : ~IsSignatureField(f)),
                      call.fragment),
        call.body, call.key)

\* a URL with a _signature parameter between two others has been signed
C9_Witness ==
  /\ call.op = "compute_signature"
  /\ ret.kind = "return"
  /\ Len(call.fields) = 3
  /\ ~IsSignatureField(call.fields[1])
  /\ IsSignatureField(call.fields[2])
  /\ ~IsSignatureField(call.fields[3])

\* the camera has the streaming port, and its streaming flag is true
ShouldStream(camera) ==
  /\ KEY_STREAMING_PORT \in DOMAIN camera
  /\ KEY_VIDEO_STREAMING \in DOMAIN camera
  /\ camera[KEY_VIDEO_STREAMING] = TRUE

\* the port of a network location: the text after its last colon
PortOf(netloc) == From(netloc, RFind(netloc, ":") + 1)

\* C10: get_camera_stream_url returns a URL if and only if the camera has the
\* streaming port and a true streaming flag, and null otherwise; the URL has
\* the scheme http whatever the scheme of the base URL, the camera's
\* streaming port as its port and the path /; no request is issued.
C10_StreamUrl ==
  call.op = "get_camera_stream_url" =>
    /\ ret.kind = "return"
    /\ ret.value.some <=> ShouldStream(call.camera)
    /\ ~ShouldStream(call.camera) => ret.value = None
    /\ ShouldStream(call.camera) =>
         LET p == urlsplit(ret.value.v, <<>>)
         IN  /\ p.scheme = <<"h","t","t","p">>
             /\ PortOf(p.netloc) = DecStr(call.camera[KEY_STREAMING_PORT])
             /\ p.path = <<"/">>
             /\ p.query = <<>>
             /\ p.fragment = <<>>
    /\ pc = "idle"
    /\ resp = NoResp

\* a streaming camera of a client with an https base URL has got its URL
C10_Witness ==
  /\ call.op = "get_camera_stream_url"
  /\ ShouldStream(call.camera)
  /\ urlsplit(self.url, <<>>).scheme = HTTPS
  /\ ret.kind = "return"
  /\ ret.value.some

\* the hostname of a network location: without user-info and without port
HostOf(netloc) ==
  LET hostport == From(netloc, RFind(netloc, "@") + 1)
  IN  IF Has(hostport, ":") THEN Upto(hostport, RFind(hostport, ":") - 1)
      ELSE hostport

\* C11: for every streaming camera and every valid base URL, the host of the
\* URL get_camera_stream_url returns is the camera's host override when the
\* camera has one, and otherwise the hostname of the base URL, without port
\* and without user-info.
C11_StreamUrlHost ==
  (call.op = "get_camera_stream_url" /\ ShouldStream(call.camera)) =>
    /\ ret.kind = "return"
    /\ ret.value.some
    /\ HostOf(urlsplit(ret.value.v, <<>>).netloc) =
         IF KEY_HOST \in DOMAIN call.camera THEN call.camera[KEY_HOST]
         ELSE HostOf(urlsplit(self.url, <<>>).netloc)

\* the same for cameras without a host override and base URLs without
\* user-info
C11_PlainStreamUrlHost ==
  (/\ call.op = "get_camera_stream_url"
   /\ ShouldStream(call.camera)
   /\ KEY_HOST \notin DOMAIN call.camera
   /\ ~Has(urlsplit(self.url, <<>>).netloc, "@")) =>
    /\ ret.kind = "return"
    /\ ret.value.some
    /\ HostOf(urlsplit(ret.value.v, <<>>).netloc) = HostOf(urlsplit(self.url, <<>>).netloc)

\* C12: get_camera_snapshot_url returns null unless the camera has the
\* streaming port, a true streaming flag and the id field; when it has them
\* it returns the URL of /picture/{id}/current/ on the base URL's server,
\* whose only parameters are _username, with the surveillance username, and
\* the signature of a GET request under the digest of the surveillance
\* password.
C12_SnapshotUrl ==
  call.op = "get_camera_snapshot_url" =>
    /\ ret.kind = "return"
    /\ IF ShouldStream(call.camera) /\ KEY_ID \in DOMAIN call.camera
       THEN /\ ret.value.some
            /\ urlsplit(ret.value.v, <<>>).scheme = urlsplit(self.url, <<>>).scheme
            /\ urlsplit(ret.value.v, <<>>).netloc = urlsplit(self.url, <<>>).netloc
            /\ urlsplit(ret.value.v, <<>>).path =
                 <<"/","p","i","c","t","u","r","e","/">> \o DecStr(call.camera[KEY_ID]) \o <<"/","c","u","r","r","e","n","t","/">>
            /\ Len(QueryPairs(ret.value.v)) = 2
            /\ QueryPairs(ret.value.v)[1] = <<USERNAME_NAME, self.surveillance_username>>
            /\ SignedFor(ret.value.v, GET, None,
                         sha1_hexdigest(self.surveillance_password))
       ELSE ret.value = None

\* a snapshot URL was returned by a client whose two credential sets differ
\* in username and in password
C12_Witness ==
  /\ call.op = "get_camera_snapshot_url"
  /\ ret.kind = "return"
  /\ ret.value.some
  /\ self.surveillance_username # self.admin_username
  /\ self.surveillance_password # self.admin_password

\* a snapshot URL was refused to a streaming camera without the id field
C12_WitnessNoId ==
  /\ call.op = "get_camera_snapshot_url"
  /\ ShouldStream(call.camera)
  /\ KEY_ID \notin DOMAIN call.camera
  /\ ret.value = None

\* two results of a call are the same
SameResult(r1, r2) ==
  /\ r1.kind = r2.kind
  /\ r1.kind = "raise" => r1.exc = r2.exc
  /\ r1.kind = "return" => r1.value = r2.value

MediaCall == call.op \in {"get_movie_url", "get_image_url"}

\* what the media call of the state gives for another path
MediaResultFor(path) ==
  IF call.op = "get_movie_url"
  THEN get_movie_url(self, call.camera_id, path, call.preview)
  ELSE get_image_url(self, call.camera_id, path, call.preview)

\* a media path and the same path behind one more separator give the same URL
C13_SlashFormsAgree ==
  (MediaCall /\ Len(call.path) > 0 /\ call.path[1] # "/") =>
    SameResult(ret, MediaResultFor(<<"/">> \o call.path))

\* the stripping utility gives the path or the path without its first
\* character, a separator
C13_AtMostOneStripped ==
  (MediaCall /\ strip_leading_slash(call.path).kind = "return") =>
    \/ strip_leading_slash(call.path).value.v = call.path
    \/ /\ Len(call.path) > 0
       /\ call.path[1] = "/"
       /\ strip_leading_slash(call.path).value.v = From(call.path, 2)

\* C13: for every camera id, preview flag and non-empty media path p that
\* does not start with a separator, get_movie_url(id, p) and
\* get_movie_url(id, "/" + p) return the same URL, and so do get_image_url
\* of the two; the stripping utility removes at most one leading separator.
C13_LeadingSlashIsStripped == C13_SlashFormsAgree /\ C13_AtMostOneStripped

\* a path of names other than ".", separated by single separators
IsPlainPath(path) ==
  /\ Len(path) > 0
  /\ path[1] # "/"
  /\ path[Len(path)] # "/"
  /\ \A i \in 1..Len(Split(path, "/")) :
       Len(Split(path, "/")[i]) > 0 /\ Split(path, "/")[i] # <<".">>

\* the two forms agree on plain paths, and one separator is stripped
C13_PlainPathsAgree ==
  (MediaCall /\ IsPlainPath(call.path)) =>
    /\ SameResult(ret, MediaResultFor(<<"/">> \o call.path))
    /\ strip_leading_slash(<<"/">> \o call.path) = Return(Some(call.path))
    /\ ret.kind = "return"

\* a media path is empty after its leading separator is stripped
EmptyAfterStrip(path) == path = <<>> \/ path = <<"/">>

\* C14: get_movie_url and get_image_url raise the path error, and return no
\* URL, for the empty media path and for the path that is only the separator.
C14_EmptyPathRaises ==
  (MediaCall /\ EmptyAfterStrip(call.path)) =>
    ret.kind = "raise" /\ ret.exc = PATH_ERROR

\* the empty string raises the path error, and nothing else of the client
\* has changed
C14_EmptyStringRaises ==
  (MediaCall /\ call.path = <<>>) =>
    ret.kind = "raise" /\ ret.exc = PATH_ERROR /\ session = "open" /\ pc = "idle"

\* the methods that return a signed URL, and the states holding a URL the
\* URL builder produced: returned by a URL method, or sent by a request method
UrlMethods ==
  {"_build_url", "get_camera_snapshot_url", "get_movie_url", "get_image_url"}

UrlProduced ==
  \/ call.op \in UrlMethods /\ ret.kind = "return" /\ ret.value.some
  \/ call.op \in RequestMethods

ProducedUrl ==
  IF call.op \in RequestMethods THEN CallUrl(self, call) ELSE ret.value.v

\* the request the URL is signed for
ProducedMethod ==
  IF call.op \in RequestMethods \union {"_build_url"} THEN call.method ELSE GET

ProducedBody ==
  IF call.op \in RequestMethods THEN call.serialized_json
  ELSE IF call.op = "_build_url" THEN call.data
  ELSE None

\* the credential set the call is to select: the selector for the URL
\* builder itself, the surveillance set for the snapshot URL, the admin set
\* for everything else
SelectsAdmin ==
  IF call.op = "_build_url" THEN call.admin
  ELSE call.op # "get_camera_snapshot_url"

ExpectedUsername ==
  IF SelectsAdmin THEN self.admin_username ELSE self.surveillance_username

ExpectedKey ==
  sha1_hexdigest(IF SelectsAdmin THEN self.admin_password
                 ELSE self.surveillance_password)

\* the URL carries the username of the credential set and is signed under
\* the digest of that set's password
CarriesCredentialSet(url) ==
  /\ {QueryPairs(url)[i][2] :
        i \in {j \in 1..Len(QueryPairs(url)) : QueryPairs(url)[j][1] = USERNAME_NAME}}
       = {ExpectedUsername}
  /\ Len(QueryPairs(url)) > 0
  /\ QueryPairs(url)[Len(QueryPairs(url))][1] = SIGNATURE_NAME
  /\ QueryPairs(url)[Len(QueryPairs(url))][2] =
       compute_signature(ProducedMethod, WithoutSignature(url), ProducedBody,
                         ExpectedKey)

\* C15: in every URL the URL builder produces, the _username value is the
\* username of the selected credential set, whatever _username the caller
\* supplied, and the signature key is the digest of the same set's password,
\* the digest of the empty text when there is none; the request methods and
\* the movie and image URLs select the admin set, the snapshot URL the
\* surveillance set.
C15_CredentialSetSelected ==
  UrlProduced =>
    /\ call.op \in RequestMethods => call.admin
    /\ CarriesCredentialSet(ProducedUrl)

\* the path the caller supplied, if the call has one
SuppliedPath == IF "path" \in DOMAIN call THEN call.path ELSE <<>>

\* the same for supplied paths without a query or fragment delimiter
C15_PlainPathsSelect ==
  (UrlProduced /\ ~Has(SuppliedPath, "#") /\ ~Has(SuppliedPath, "?")) =>
    /\ call.op \in RequestMethods => call.admin
    /\ CarriesCredentialSet(ProducedUrl)

\* the pairs of a query that are not named _signature, in the URL's order
KeptPairs(url) ==
  SelectSeq(QueryPairs(url), LAMBDA q : q[1] # SIGNATURE_NAME)

\* the place of pair i when the pairs K are put in the order of their names,
\* pairs of one name in the order they have in K
RankByName(K, i) ==
  1 + Cardinality({j \in 1..Len(K) : StrLess(K[j][1], K[i][1])})
    + Cardinality({j \in 1..i - 1 : K[j][1] = K[i][1]})

\* the pair at each place of that order
ByName(K) ==
  <<>> \o [r \in 1..Len(K) |-> CHOOSE i \in 1..Len(K) : RankByName(K, i) = r]

\* a path and query holding the pairs K in the order f, each as
\* name=value with the value percent-encoded, and no ? when there is no pair
PathAndQuery(url, K, f) ==
  urlsplit(url, <<>>).path
    \o (IF Len(K) = 0 THEN <<>>
        ELSE <<"?">> \o Join([i \in 1..Len(K) |->
                                K[f[i]][1] \o <<"=">>
                                  \o quote(K[f[i]][2], EncodeURIComponentSafe)],
                             <<"&">>))
    \o (IF Len(urlsplit(url, <<>>).fragment) = 0 THEN <<>>
        ELSE <<"#">> \o urlsplit(url, <<>>).fragment)

\* the signature of a request whose path and query are hashed as text
SignatureOver(method, text, body, key) ==
  Lower(sha1_hexdigest(method \o <<":">> \o SignatureRegexSub(text) \o <<":">>
                         \o BodySegment(body) \o <<":">> \o SignatureRegexSub(key)))

SignedUrl == UrlWithFields(call.path, call.fields, call.fragment)

\* the raw fields in the order of their names, fields of one name in their
\* original order: every reordering of the fields that keeps the order of
\* equal-named fields has this same arrangement
ArrangedByName(fields) ==
  LET K == <<>> \o [i \in 1..Len(fields) |-> ParseField(fields[i])]
      f == ByName(K)
  IN  <<>> \o [r \in 1..Len(fields) |-> fields[f[r]]]

\* what is hashed for the path and query is the path and exactly the pairs
\* not named _signature, ordered by name alone
C16_HashedQuery ==
  (call.op = "compute_signature" /\ ret.kind = "return") =>
    LET K == KeptPairs(SignedUrl)
        f == ByName(K)
    IN  ret.value.v = SignatureOver(call.method, PathAndQuery(SignedUrl, K, f),
                                    call.body, call.key)

\* a URL has the signature of the URL with its fields arranged by name
C16_ReorderingsAgree ==
  (call.op = "compute_signature" /\ ret.kind = "return") =>
    LET arranged == UrlWithFields(call.path, ArrangedByName(call.fields),
                                  call.fragment)
    IN  ret.value.v = compute_signature(call.method, arranged, call.body, call.key)

\* C16: what compute_signature hashes for the path and query is the path and
\* exactly the pairs not named _signature, ordered by name alone, pairs of
\* one name in their original order, each value with its own name, and no ?
\* when no pair is left; so two URLs whose queries are reorderings of the
\* same fields that keep the order of equal-named fields have the same
\* signature.
C16_CanonicalQueryIsSortedByName == C16_HashedQuery /\ C16_ReorderingsAgree

\* a URL with two pairs of one name after a pair of a greater name has been
\* signed
C16_Witness ==
  /\ call.op = "compute_signature"
  /\ ret.kind = "return"
  /\ Len(KeptPairs(SignedUrl)) = 3
  /\ StrLess(KeptPairs(SignedUrl)[2][1], KeptPairs(SignedUrl)[1][1])
  /\ KeptPairs(SignedUrl)[2][1] = KeptPairs(SignedUrl)[3][1]
  /\ KeptPairs(SignedUrl)[2][2] # KeptPairs(SignedUrl)[3][2]

\* a URL left with no pair has been signed
C16_WitnessNoPairs ==
  /\ call.op = "compute_signature"
  /\ ret.kind = "return"
  /\ Len(call.fields) > 0
  /\ Len(KeptPairs(SignedUrl)) = 0

\* the body is discarded: it is absent, empty, or starts with --- as supplied
BodyDiscarded(body) ==
  \/ ~body.some
  \/ Len(body.v) = 0
  \/ Len(body.v) >= 3 /\ SubSeq(body.v, 1, 3) = <<"-", "-", "-">>

\* the body segment the claim describes
ExpectedBodySegment(body) ==
  IF BodyDiscarded(body) THEN <<>>
  ELSE <<>> \o [i \in 1..Len(body.v) |->
                  IF body.v[i] \in SignatureRegexKept THEN body.v[i] ELSE "-"]

\* C17: the body segment of the text compute_signature hashes is empty
\* exactly when the body is absent, empty, or starts with --- as it was
\* supplied, and otherwise the body with every character outside the allowed
\* set replaced by -; the hashed text is always method, path, body segment
\* and key joined by colons, so an absent body and an empty body give the
\* same signature.
C17_BodySegment ==
  (call.op = "compute_signature" /\ ret.kind = "return") =>
    LET url == SignedUrl
        segment == ExpectedBodySegment(call.body)
    IN  /\ ret.value.v =
             Lower(sha1_hexdigest(call.method \o <<":">> \o CanonicalPath(url)
                                    \o <<":">> \o segment \o <<":">>
                                    \o SignatureRegexSub(call.key)))
        /\ Len(segment) = 0 <=> BodyDiscarded(call.body)
        /\ (~call.body.some \/ Len(call.body.v) = 0) =>
             /\ ret.value.v = compute_signature(call.method, url, None, call.key)
             /\ ret.value.v = compute_signature(call.method, url, Some(<<>>), call.key)

\* a body that starts with --- only after the filter has been signed
C17_Witness ==
  /\ call.op = "compute_signature"
  /\ ret.kind = "return"
  /\ call.body.some
  /\ ~BodyDiscarded(call.body)
  /\ Len(call.body.v) >= 3
  /\ SubSeq(ExpectedBodySegment(call.body), 1, 3) = <<"-", "-", "-">>

\* a body that starts with --- as supplied has been signed
C17_WitnessMultipart ==
  /\ call.op = "compute_signature"
  /\ ret.kind = "return"
  /\ call.body.some
  /\ Len(call.body.v) > 3
  /\ BodyDiscarded(call.body)

\* C18: every call of a request method, after any earlier operations on the
\* client (logins, other requests, close), ends in one outcome: the decoded
\* result is returned, or one error of the client-error category
\* (connection, authentication or request error) is raised; no other error
\* reaches the caller.
C18_RequestEndsInClientOutcome ==
  RequestDone =>
    \/ ret.kind = "return"
    \/ ret.kind = "raise" /\ ret.exc \in LoginErrors

\* the same for requests that got a response or an aiohttp ClientError
C18_ClientErrorsStayInCategory ==
  (RequestDone /\ (resp.kind = "response" \/ IsClientError(resp.exc))) =>
    \/ ret.kind = "return"
    \/ ret.kind = "raise" /\ ret.exc \in LoginErrors

\* a request is built and sent in one step from idle, awaits its response,
\* and ends in the next step of the call
C18_StagesInOrder ==
  /\ pc' = "AWAIT_RESPONSE" => (pc = "idle" /\ call'.op \in RequestMethods \cup {"__aenter__"})
  /\ pc = "AWAIT_RESPONSE" => (pc' = "idle" /\ call' = call /\ resp'.kind # "none")

C18_RequestStages == [][C18_StagesInOrder]_vars

\* C19: the session the client created is released on every way of leaving
\* the guarded scope: by __aexit__, whether the body returned or raised and
\* whether the login had succeeded or a null handle was yielded, and also
\* when __aenter__ itself ended with an error.
C19_SessionReleasedOnLeaving ==
  /\ call.op = "__aexit__" => session = "closed"
  /\ (call.op = "__aenter__" /\ pc = "idle" /\ scope = "out") => session = "closed"

\* the scope was entered and left through __aexit__: the session is closed
C19_ExitReleases ==
  (call.op = "__aexit__" /\ scope = "out") => session = "closed"

====
